---- MODULE Spec2Model ----
(***************************************************************************)
(* hyprdock: a laptop docking daemon.  The model follows src/main.rs: the  *)
(* command runner, the monitor probes, the display operations, the lid     *)
(* handlers, the acpid socket loop and the command-line dispatch.          *)
(*                                                                         *)
(* Text (command lines, the monitor listing, socket bytes) is a sequence   *)
(* of one-character strings.  The single thread of the program is the      *)
(* variable stack: the calls and commands it still has to run, leftmost    *)
(* first.  Everything outside the process (the monitors, acpid, whether a  *)
(* program can be spawned) is chosen nondeterministically.                 *)
(***************************************************************************)
EXTENDS Integers, Sequences, FiniteSets, TLC

VARIABLES
    mode,      \* "start", "main", "server", "exited", "crashed"; "runner", "returned" in SpecRunner
    stack,     \* pending calls and commands of the running operation
    entry,     \* operation dispatched by main or by handle_event ("none" if none)
    trace,     \* config fields spawned (and "sleep") since the last dispatch
    probes,    \* results of the probe queries since the last dispatch
    listing,   \* what the monitor-listing command prints right now
    stream,    \* bytes written by acpid and not yet read
    peer,      \* "open" or "closed": acpid's end of the socket
    data,      \* the text decoded from the last read
    cmdline,   \* SpecRunner: the command line under test
    spawns,    \* SpecRunner: the spawn attempts made
    ret,       \* SpecRunner: what the call returned
    matched,   \* the argument main matched for entry ("none" when main did not set entry)
    prev,      \* the value of entry before the last dispatch
    fault,     \* the message of the failure that ended the process ("none" if none)
    dock,      \* the HyprDock parse_config returned (every field empty before it has)
    pending,   \* SpecEffect: command lines spawned that the backend has not carried out
    settled,   \* no probe so far has run while a spawned command was still pending
    left       \* arguments main has still to look at

vars ==
    <<mode, stack, entry, trace, probes, listing, stream, peer, data, cmdline, spawns, ret,
      matched, prev, fault, dock, pending, settled, left>>

(* ------------------------------ bounds -------------------------------- *)

\* records acpid may have written that the daemon has not read yet
MaxStream == 2

\* longest command line tried on the command runner
MaxCmdLen == 3

\* most arguments on the command line
MaxArgs == 2

(* ----------------------------- constants ------------------------------ *)

\* let mut buf = [0; 1024]
BufSize == 1024

\* the fallback configuration of parse_config
Config ==
    \* monitor_name = 'eDP-1'
    [ monitor_name |-> <<"e","D","P","-","1">>,
    \* open_bar_command = 'eww open bar'
      open_bar_command |-> <<"e","w","w"," ","o","p","e","n"," ","b","a","r">>,
    \* close_bar_command = 'eww close-all'
      close_bar_command |-> <<"e","w","w"," ","c","l","o","s","e","-","a","l","l">>,
    \* reload_bar_command = 'eww reload'
      reload_bar_command |-> <<"e","w","w"," ","r","e","l","o","a","d">>,
    \* suspend_command = 'systemctl suspend'
      suspend_command |-> <<"s","y","s","t","e","m","c","t","l"," ","s","u","s","p","e","n","d">>,
    \* lock_command = 'swaylock -c 000000'
      lock_command |-> <<"s","w","a","y","l","o","c","k"," ","-","c"," ","0","0","0","0","0","0">>,
    \* utility_command = 'playerctl --all-players -a pause'
      utility_command |-> <<"p","l","a","y","e","r","c","t","l"," ","-","-","a","l","l","-","p","l","a","y","e","r","s"," ","-","a"," ","p","a","u","s","e">>,
    \* get_monitors_command = 'hyprctl monitors'
      get_monitors_command |-> <<"h","y","p","r","c","t","l"," ","m","o","n","i","t","o","r","s">>,
    \* enable_internal_monitor_command = 'hyprctl keyword monitor {monitor_name},highrr,0x0,1'
      enable_internal_monitor_command |-> <<"h","y","p","r","c","t","l"," ","k","e","y","w","o","r","d"," ","m","o","n","i","t","o","r"," ","{","m","o","n","i","t","o","r","_","n","a","m","e","}",",","h","i","g","h","r","r",",","0","x","0",",","1">>,
    \* disable_internal_monitor_command = 'hyprctl keyword monitor {monitor_name},diabled'
      disable_internal_monitor_command |-> <<"h","y","p","r","c","t","l"," ","k","e","y","w","o","r","d"," ","m","o","n","i","t","o","r"," ","{","m","o","n","i","t","o","r","_","n","a","m","e","}",",","d","i","a","b","l","e","d">>,
    \* enable_external_monitor_command = 'hyprctl keyword monitor ,highrr,0x0,1'
      enable_external_monitor_command |-> <<"h","y","p","r","c","t","l"," ","k","e","y","w","o","r","d"," ","m","o","n","i","t","o","r"," ",",","h","i","g","h","r","r",",","0","x","0",",","1">>,
    \* disable_external_monitor_command = 'hyprctl keyword monitor ,disabled'
      disable_external_monitor_command |-> <<"h","y","p","r","c","t","l"," ","k","e","y","w","o","r","d"," ","m","o","n","i","t","o","r"," ",",","d","i","s","a","b","l","e","d">>,
    \* extend_command = 'hyprctl keyword monitor ,highrr,1920x0,1'
      extend_command |-> <<"h","y","p","r","c","t","l"," ","k","e","y","w","o","r","d"," ","m","o","n","i","t","o","r"," ",",","h","i","g","h","r","r",",","1","9","2","0","x","0",",","1">>,
    \* mirror_command = 'hyprctl keyword monitor ,highrr,0x0,1'
      mirror_command |-> <<"h","y","p","r","c","t","l"," ","k","e","y","w","o","r","d"," ","m","o","n","i","t","o","r"," ",",","h","i","g","h","r","r",",","0","x","0",",","1">>,
    \* wallpaper_command = 'hyprctl dispatch hyprpaper'
      wallpaper_command |-> <<"h","y","p","r","c","t","l"," ","d","i","s","p","a","t","c","h"," ","h","y","p","r","p","a","p","e","r">> ]

\* the fields of struct HyprDock
Fields ==
    { "monitor_name",
      "open_bar_command",
      "close_bar_command",
      "reload_bar_command",
      "suspend_command",
      "lock_command",
      "utility_command",
      "get_monitors_command",
      "enable_internal_monitor_command",
      "disable_internal_monitor_command",
      "enable_external_monitor_command",
      "disable_external_monitor_command",
      "extend_command",
      "mirror_command",
      "wallpaper_command" }

\* ~/.config/hypr/hyprdock.toml as parse_config may find it: absent; a table
\* that names the internal monitor DP-2 and every command after its field;
\* the same table without its wallpaper_command line
NoFile ==
    [exists |-> FALSE, table |-> <<>>]

NamedFile ==
    [exists |-> TRUE,
     table |->
    [ monitor_name |->
          <<"D","P","-","2">>,
      open_bar_command |->
          <<"o","p","e","n","_","b","a","r","_","c","o","m","m","a","n","d">>,
      close_bar_command |->
          <<"c","l","o","s","e","_","b","a","r","_","c","o","m","m","a","n","d">>,
      reload_bar_command |->
          <<"r","e","l","o","a","d","_","b","a","r","_","c","o","m","m","a","n","d">>,
      suspend_command |->
          <<"s","u","s","p","e","n","d","_","c","o","m","m","a","n","d">>,
      lock_command |->
          <<"l","o","c","k","_","c","o","m","m","a","n","d">>,
      utility_command |->
          <<"u","t","i","l","i","t","y","_","c","o","m","m","a","n","d">>,
      get_monitors_command |->
          <<"g","e","t","_","m","o","n","i","t","o","r","s","_","c","o","m","m","a","n","d">>,
      enable_internal_monitor_command |->
          <<"e","n","a","b","l","e","_","i","n","t","e","r","n","a","l","_","m","o","n","i","t","o","r","_","c","o","m","m","a","n","d">>,
      disable_internal_monitor_command |->
          <<"d","i","s","a","b","l","e","_","i","n","t","e","r","n","a","l","_","m","o","n","i","t","o","r","_","c","o","m","m","a","n","d">>,
      enable_external_monitor_command |->
          <<"e","n","a","b","l","e","_","e","x","t","e","r","n","a","l","_","m","o","n","i","t","o","r","_","c","o","m","m","a","n","d">>,
      disable_external_monitor_command |->
          <<"d","i","s","a","b","l","e","_","e","x","t","e","r","n","a","l","_","m","o","n","i","t","o","r","_","c","o","m","m","a","n","d">>,
      extend_command |->
          <<"e","x","t","e","n","d","_","c","o","m","m","a","n","d">>,
      mirror_command |->
          <<"m","i","r","r","o","r","_","c","o","m","m","a","n","d">>,
      wallpaper_command |->
          <<"w","a","l","l","p","a","p","e","r","_","c","o","m","m","a","n","d">> ]]

PartialFile ==
    [exists |-> TRUE,
     table |->
    [ monitor_name |->
          <<"D","P","-","2">>,
      open_bar_command |->
          <<"o","p","e","n","_","b","a","r","_","c","o","m","m","a","n","d">>,
      close_bar_command |->
          <<"c","l","o","s","e","_","b","a","r","_","c","o","m","m","a","n","d">>,
      reload_bar_command |->
          <<"r","e","l","o","a","d","_","b","a","r","_","c","o","m","m","a","n","d">>,
      suspend_command |->
          <<"s","u","s","p","e","n","d","_","c","o","m","m","a","n","d">>,
      lock_command |->
          <<"l","o","c","k","_","c","o","m","m","a","n","d">>,
      utility_command |->
          <<"u","t","i","l","i","t","y","_","c","o","m","m","a","n","d">>,
      get_monitors_command |->
          <<"g","e","t","_","m","o","n","i","t","o","r","s","_","c","o","m","m","a","n","d">>,
      enable_internal_monitor_command |->
          <<"e","n","a","b","l","e","_","i","n","t","e","r","n","a","l","_","m","o","n","i","t","o","r","_","c","o","m","m","a","n","d">>,
      disable_internal_monitor_command |->
          <<"d","i","s","a","b","l","e","_","i","n","t","e","r","n","a","l","_","m","o","n","i","t","o","r","_","c","o","m","m","a","n","d">>,
      enable_external_monitor_command |->
          <<"e","n","a","b","l","e","_","e","x","t","e","r","n","a","l","_","m","o","n","i","t","o","r","_","c","o","m","m","a","n","d">>,
      disable_external_monitor_command |->
          <<"d","i","s","a","b","l","e","_","e","x","t","e","r","n","a","l","_","m","o","n","i","t","o","r","_","c","o","m","m","a","n","d">>,
      extend_command |->
          <<"e","x","t","e","n","d","_","c","o","m","m","a","n","d">>,
      mirror_command |->
          <<"m","i","r","r","o","r","_","c","o","m","m","a","n","d">> ]]

Files ==
    {NoFile, NamedFile, PartialFile}

\* parse_config: the text is the file's, or the built-in one when the file
\* cannot be read; toml::from_str gives the struct when the table has every
\* field, else "Unable to load data" is printed and the process exits with 1
parse_config(file) ==
    LET contents == IF file.exists THEN file.table ELSE Config
    IN  IF Fields \subseteq DOMAIN contents
        THEN [ok |-> TRUE, dock |-> [f \in Fields |-> contents[f]]]
        ELSE [ok |-> FALSE, dock |-> [f \in Fields |-> <<>>]]

\* the struct before parse_config has run
Unloaded ==
    [f \in Fields |-> <<>>]

(* ------------------------------- bytes -------------------------------- *)
(* A byte of ASCII is its character.  Of the bytes above 0x7F the model    *)
(* has the two of U+00E9: the lead byte 0xC3 and its continuation 0xA9.    *)

\* str::from_utf8 / String::from_utf8 return Ok: every lead byte is followed
\* by its continuation and every continuation follows a lead byte
Utf8Valid(bytes) ==
    \A k \in 1..Len(bytes) :
        /\ bytes[k] = "0xC3" => (k < Len(bytes) /\ bytes[k + 1] = "0xA9")
        /\ bytes[k] = "0xA9" => (k > 1 /\ bytes[k - 1] = "0xC3")

\* "button/lid LID close\n"
LidClose ==
    <<"b","u","t","t","o","n","/","l","i","d"," ","L","I","D"," ","c","l","o","s","e","\n">>

\* "button/lid LID open\n"
LidOpen ==
    <<"b","u","t","t","o","n","/","l","i","d"," ","L","I","D"," ","o","p","e","n","\n">>

\* another record acpid broadcasts: "button/power PBTN\n"
PowerButton ==
    <<"b","u","t","t","o","n","/","p","o","w","e","r"," ","P","B","T","N","\n">>

\* bytes on the socket that end in the middle of a character: 0xC3 "\n"
CutRecord ==
    <<"0xC3", "\n">>

\* what acpid (or whoever holds the socket) writes
Records == {LidClose, LidOpen, PowerButton, CutRecord}

\* outputs of the monitor-listing command: no monitor, internal only,
\* external only (with either ID), internal and external, two externals,
\* and an output that is not UTF-8: "eDP-1 ID 1 " and a lone 0xC3
Listings ==
    { <<"e","D","P","-","1"," ","I","D"," ","1"," ">> \o <<"0xC3">>,
      <<>>,
      <<"M","o","n","i","t","o","r"," ","e","D","P","-","1"," ","(","I","D"," ","0",")",":">>,
      <<"M","o","n","i","t","o","r"," ","H","D","M","I","-","A","-","1"," ","(","I","D"," ","0",")",":">>,
      <<"M","o","n","i","t","o","r"," ","H","D","M","I","-","A","-","1"," ","(","I","D"," ","1",")",":">>,
      <<"M","o","n","i","t","o","r"," ","e","D","P","-","1"," ","(","I","D"," ","0",")",":">> \o <<"\n">> \o <<"M","o","n","i","t","o","r"," ","H","D","M","I","-","A","-","1"," ","(","I","D"," ","1",")",":">>,
      <<"M","o","n","i","t","o","r"," ","H","D","M","I","-","A","-","1"," ","(","I","D"," ","0",")",":">> \o <<"\n">> \o <<"M","o","n","i","t","o","r"," ","D","P","-","2"," ","(","I","D"," ","1",")",":">> }

(* ------------------------------ strings ------------------------------- *)

\* str::contains: needle occurs in hay as a contiguous run
Contains(hay, needle) ==
    \E i \in 0..(Len(hay) - Len(needle)) :
        \A j \in 1..Len(needle) : hay[i + j] = needle[j]

\* str::split(" "): the pieces between single spaces; never an empty list
RECURSIVE SplitSpace(_)
SplitSpace(s) ==
    IF \A k \in 1..Len(s) : s[k] # " " THEN <<s>>
    ELSE LET i == CHOOSE k \in 1..Len(s) :
                      s[k] = " " /\ \A j \in 1..(k - 1) : s[j] # " "
         IN  <<SubSeq(s, 1, i - 1)>> \o SplitSpace(SubSeq(s, i + 1, Len(s)))

(* --------------------------- command runner --------------------------- *)

\* What execute_command asks the system for: nothing when the split list
\* is empty, else a detached spawn of the first piece with the rest as args.
execute_command(command) ==
    LET command_split == SplitSpace(command)
    IN  IF Len(command_split) = 0
        THEN [spawned |-> FALSE, program |-> <<>>, args |-> << >>, wait |-> FALSE]
        ELSE [spawned |-> TRUE, program |-> Head(command_split),
              args |-> Tail(command_split), wait |-> FALSE]

\* The same for execute_command_with_output, which waits for the child and
\* returns its standard output (an empty Vec when the split list is empty).
execute_command_with_output(command) ==
    LET command_split == SplitSpace(command)
    IN  IF Len(command_split) = 0
        THEN [spawned |-> FALSE, program |-> <<>>, args |-> << >>, wait |-> TRUE]
        ELSE [spawned |-> TRUE, program |-> Head(command_split),
              args |-> Tail(command_split), wait |-> TRUE]

\* Command::spawn / Command::output: a program with an empty name cannot be
\* executed; any other may or may not be installed.  An Err makes expect panic.
SpawnOutcomes(program) ==
    IF program = <<>> THEN {FALSE} ELSE {TRUE, FALSE}

(* --------------------------- monitor probes --------------------------- *)

is_internal_active(output) ==
    Contains(output, dock.monitor_name)

has_external_monitor(output) ==
    Contains(output, <<"I", "D", " ", "1">>)

(* ------------------------------ operations ---------------------------- *)
(* Each operation is the list of what it runs, in order.  An operation     *)
(* that starts with a probe takes the probe's result as its argument; one  *)
(* that probes twice continues in a second definition named after the line *)
(* of the second probe.                                                    *)

\* lock_system with the two commands exchanged
\* lock_system waiting between the lock and the suspend
lock_system_waits ==
    <<"lock_command", "sleep", "suspend_command">>

lock_system_suspend_first ==
    <<"suspend_command", "lock_command">>

lock_system ==
    <<"lock_command", "suspend_command">>

stop_music ==
    <<"utility_command">>

restart_hyprpaper ==
    <<"wallpaper_command">>

\* restart_eww_bar opening the bar before closing it
restart_eww_bar_open_first ==
    <<"open_bar_command", "close_bar_command">>

restart_eww_bar ==
    <<"close_bar_command", "open_bar_command">>

fix_eww_bar ==
    <<"reload_bar_command">>

restart_internal ==
    <<"enable_internal_monitor_command", "restart_hyprpaper", "restart_eww_bar", "fix_eww_bar">>

extend_monitor(internal_active) ==
    (IF ~internal_active THEN <<"restart_internal">> ELSE <<>>)
        \o <<"extend_command">>

\* mirror_monitor issuing the extend command
mirror_monitor_extends(internal_active) ==
    (IF ~internal_active THEN <<"restart_internal">> ELSE <<>>)
        \o <<"extend_command">>

mirror_monitor(internal_active) ==
    (IF ~internal_active THEN <<"restart_internal">> ELSE <<>>)
        \o <<"mirror_command">>

\* internal_monitor with needs_restart not negated
\* internal_monitor leaving the external monitor alone
internal_monitor_keeps_external(internal_active) ==
    LET needs_restart == ~internal_active
    IN  <<"enable_internal_monitor_command">>
            \o (IF needs_restart THEN <<"restart_eww_bar", "restart_hyprpaper">> ELSE <<>>)

internal_monitor_inverted(internal_active) ==
    LET needs_restart == internal_active
    IN  <<"enable_internal_monitor_command", "disable_external_monitor_command">>
            \o (IF needs_restart THEN <<"restart_eww_bar", "restart_hyprpaper">> ELSE <<>>)

internal_monitor(internal_active) ==
    LET needs_restart == ~internal_active
    IN  <<"enable_internal_monitor_command", "disable_external_monitor_command">>
            \o (IF needs_restart THEN <<"restart_eww_bar", "restart_hyprpaper">> ELSE <<>>)

external_monitor(has_external) ==
    IF ~has_external THEN <<>> ELSE <<"external_monitor_254">>

external_monitor_254(internal_active) ==
    LET needs_restart == ~internal_active
    IN  <<"disable_internal_monitor_command", "enable_external_monitor_command">>
            \o (IF needs_restart THEN <<"restart_eww_bar", "restart_hyprpaper">> ELSE <<>>)

handle_close(has_external) ==
    IF has_external
    THEN <<"external_monitor", "sleep", "restart_hyprpaper", "restart_eww_bar">>
    ELSE <<"stop_music", "lock_system">>

\* handle_open without its early return
\* handle_open remembering that the last event was an open already
handle_open_remembers(internal_active) ==
    IF internal_active \/ prev = "handle_open" THEN <<>> ELSE <<"handle_open_175">>

handle_open_unguarded(internal_active) ==
    <<"handle_open_175">>

handle_open(internal_active) ==
    IF internal_active THEN <<>> ELSE <<"handle_open_175">>

\* handle_open without the bar reload when there is no external monitor
handle_open_175_no_reload(has_external) ==
    IF ~has_external
    THEN <<"internal_monitor", "restart_hyprpaper", "restart_eww_bar">>
    ELSE <<"internal_monitor", "extend_monitor", "restart_hyprpaper",
           "restart_eww_bar", "fix_eww_bar">>

\* handle_open extending after the restarts when there is an external monitor
handle_open_175_extend_last(has_external) ==
    IF ~has_external
    THEN <<"internal_monitor", "restart_hyprpaper", "restart_eww_bar", "fix_eww_bar">>
    ELSE <<"internal_monitor", "restart_hyprpaper", "restart_eww_bar",
           "fix_eww_bar", "extend_monitor">>

handle_open_175(has_external) ==
    IF ~has_external
    THEN <<"internal_monitor", "restart_hyprpaper", "restart_eww_bar", "fix_eww_bar">>
    ELSE <<"internal_monitor", "extend_monitor", "restart_hyprpaper",
           "restart_eww_bar", "fix_eww_bar">>

\* handle_event matching the start of the text instead of the whole text
handle_event_starts_with(event) ==
    IF Len(event) >= Len(LidClose) /\ SubSeq(event, 1, Len(LidClose)) = LidClose
    THEN <<"handle_close">>
    ELSE IF Len(event) >= Len(LidOpen) /\ SubSeq(event, 1, Len(LidOpen)) = LidOpen
    THEN <<"handle_open">>
    ELSE <<>>

handle_event(event) ==
    IF event = LidClose THEN <<"handle_close">>
    ELSE IF event = LidOpen THEN <<"handle_open">>
    ELSE <<>>

\* the match of main: the operation an argument runs
main(arg) ==
    CASE arg \in {"--internal", "-i"} -> "internal_monitor"
      [] arg \in {"--external", "-e"} -> "external_monitor"
      [] arg \in {"--extend", "-eo"} -> "extend_monitor"
      [] arg \in {"--mirror", "-io"} -> "mirror_monitor"
      [] arg \in {"--server", "-s"} -> "socket_connect"
      [] arg \in {"--suspend", "-su"} -> "lock_system"
      [] arg \in {"--version", "-v"} -> "version"
      [] arg \in {"--help", "-h"} -> "help"
      [] OTHER -> "unparsed"

\* arguments tried: those main matches and those print_help lists
\* the operation print_help documents for a flag ("none" for a flag it
\* does not document as running an operation)
print_help(arg) ==
    CASE arg \in {"--extend", "-e"} -> "extend_monitor"
      [] arg \in {"--mirror", "-m"} -> "mirror_monitor"
      [] arg \in {"--internal", "-io"} -> "internal_monitor"
      [] arg \in {"--external", "-eo"} -> "external_monitor"
      [] arg \in {"--server", "-s"} -> "socket_connect"
      [] OTHER -> "none"

Args ==
    { "--internal", "-i", "--external", "-e", "--extend", "-eo", "--mirror", "-io",
      "--server", "-s", "--suspend", "-su", "--version", "-v", "--help", "-h",
      "-m", "--bar", "-b" }

(* --------------------------- the interpreter -------------------------- *)

\* the config fields execute_command is called on
Commands ==
    { "open_bar_command", "close_bar_command", "reload_bar_command", "suspend_command",
      "lock_command", "utility_command", "enable_internal_monitor_command",
      "disable_internal_monitor_command", "enable_external_monitor_command",
      "disable_external_monitor_command", "extend_command", "mirror_command",
      "wallpaper_command" }

\* operations that run no probe themselves
PlainOps ==
    { "lock_system", "stop_music", "restart_hyprpaper", "restart_eww_bar",
      "fix_eww_bar", "restart_internal" }

\* operations (and continuations) that begin with is_internal_active
InternalProbeOps ==
    { "handle_open", "extend_monitor", "mirror_monitor", "internal_monitor",
      "external_monitor_254" }

\* operations (and continuations) that begin with has_external_monitor
ExternalProbeOps ==
    { "handle_close", "handle_open_175", "external_monitor" }

\* the body of a plain operation
PlainBody(op) ==
    CASE op = "lock_system" -> lock_system
      [] op = "stop_music" -> stop_music
      [] op = "restart_hyprpaper" -> restart_hyprpaper
      [] op = "restart_eww_bar" -> restart_eww_bar
      [] op = "fix_eww_bar" -> fix_eww_bar
      [] op = "restart_internal" -> restart_internal

\* the body of a probing operation, given the probe's result
ProbeBody(op, r) ==
    CASE op = "handle_open" -> handle_open(r)
      [] op = "extend_monitor" -> extend_monitor(r)
      [] op = "mirror_monitor" -> mirror_monitor(r)
      [] op = "internal_monitor" -> internal_monitor(r)
      [] op = "external_monitor_254" -> external_monitor_254(r)
      [] op = "handle_close" -> handle_close(r)
      [] op = "handle_open_175" -> handle_open_175(r)
      [] op = "external_monitor" -> external_monitor(r)

\* the probe an operation begins with, applied to the listing output
ProbeResult(op, output) ==
    IF op \in InternalProbeOps THEN is_internal_active(output)
    ELSE has_external_monitor(output)

ProbeName(op) ==
    IF op \in InternalProbeOps THEN "is_internal_active" ELSE "has_external_monitor"

Running ==
    mode \in {"main", "server"}

\* number of records (newline-terminated) waiting in the stream
CountNewlines(s) ==
    Cardinality({k \in 1..Len(s) : s[k] = "\n"})

Min(a, b) ==
    IF a < b THEN a ELSE b

(* ------------------------------ initial state ------------------------- *)

Init ==
    /\ mode = "start"
    /\ stack = <<>>
    /\ entry = "none"
    /\ trace = <<>>
    /\ probes = <<>>
    /\ listing \in Listings
    /\ stream = <<>>
    /\ peer = "open"
    /\ data = <<>>
    /\ cmdline = <<>>
    /\ spawns = <<>>
    /\ ret = [kind |-> "none", bytes |-> <<>>]
    /\ matched = "none"
    /\ prev = "none"
    /\ fault = "none"
    /\ dock = Unloaded
    /\ pending = <<>>
    /\ settled = TRUE
    /\ left \in 0..MaxArgs

(* ------------------------------ main ---------------------------------- *)

\* what a write to standard output or standard error comes to: done, or
\* an error (a full device, a pipe nobody reads), which makes print!,
\* println! and eprintln! panic
WriteOutcomes ==
    {TRUE, FALSE}

\* env::args() panics on an element of the argument vector that is not
\* Unicode, the program's own name included
ArgsPanic ==
    /\ mode = "start"
    /\ mode' = "crashed"
    /\ fault' = "invalid unicode in argument"
    /\ UNCHANGED <<stack, entry, trace, probes, listing, stream, peer, data,
                   cmdline, spawns, ret, matched, prev, dock, pending, settled, left>>

\* args.len() < 2: the help is printed and main returns, no file is read
MainNoArgs ==
    /\ mode = "start"
    /\ left = 0
    /\ \E ok \in WriteOutcomes :
          /\ mode' = IF ok THEN "exited" ELSE "crashed"
          /\ fault' = IF ok THEN fault ELSE "failed printing to stdout"
    /\ UNCHANGED <<stack, entry, trace, probes, listing, stream, peer, data,
                   cmdline, spawns, ret, matched, prev, dock, pending, settled, left>>

\* home_dir().unwrap() and to_str().unwrap(): no home directory, or a path
\* to it that is not UTF-8
HomePanic ==
    /\ mode = "start"
    /\ left > 0
    /\ mode' = "crashed"
    /\ fault' = "called Option::unwrap() on a None value"
    /\ UNCHANGED <<stack, entry, trace, probes, listing, stream, peer, data,
                   cmdline, spawns, ret, matched, prev, dock, pending, settled, left>>

\* parse_config returns the struct and main starts on its arguments
ParseConfig(file) ==
    /\ mode = "start"
    /\ left > 0
    /\ parse_config(file).ok
    /\ mode' = "main"
    /\ dock' = parse_config(file).dock
    /\ UNCHANGED <<stack, entry, trace, probes, listing, stream, peer, data,
                   cmdline, spawns, ret, matched, prev, fault, pending, settled, left>>

\* parse_config cannot make the struct of the file: eprintln and exit(1)
ParseConfigExit(file) ==
    /\ mode = "start"
    /\ left > 0
    /\ ~parse_config(file).ok
    /\ \E ok \in WriteOutcomes :
          /\ mode' = IF ok THEN "exited" ELSE "crashed"
          /\ fault' = IF ok THEN "Unable to load data" ELSE "failed printing to stderr"
    /\ UNCHANGED <<stack, entry, trace, probes, listing, stream, peer, data,
                   cmdline, spawns, ret, matched, prev, dock, pending, settled, left>>

\* an argument that runs one operation; main goes on to the next argument
\* when the operation returns
MainOperation(arg) ==
    /\ mode = "main"
    /\ stack = <<>>
    /\ left > 0
    /\ main(arg) \in PlainOps \cup InternalProbeOps \cup ExternalProbeOps
    /\ stack' = <<main(arg)>>
    /\ entry' = main(arg)
    /\ trace' = <<>>
    /\ probes' = <<>>
    /\ matched' = arg
    /\ prev' = entry
    /\ left' = left - 1
    /\ UNCHANGED <<mode, listing, stream, peer, data, cmdline, spawns, ret, fault,
                   dock, pending, settled>>

\* --server: socket_connect connects and enters its loop, which has no
\* end: main looks at no argument after this one
MainServer(arg) ==
    /\ mode = "main"
    /\ stack = <<>>
    /\ left > 0
    /\ main(arg) = "socket_connect"
    /\ mode' = "server"
    /\ entry' = "none"
    /\ trace' = <<>>
    /\ probes' = <<>>
    /\ matched' = arg
    /\ prev' = entry
    /\ left' = 0
    /\ UNCHANGED <<stack, listing, stream, peer, data, cmdline, spawns, ret, fault,
                   dock, pending, settled>>

\* --server when the connect fails: expect panics
ConnectPanic(arg) ==
    /\ mode = "main"
    /\ stack = <<>>
    /\ left > 0
    /\ main(arg) = "socket_connect"
    /\ mode' = "crashed"
    /\ entry' = "none"
    /\ trace' = <<>>
    /\ probes' = <<>>
    /\ matched' = arg
    /\ prev' = entry
    /\ fault' = "failed to connect to socket"
    /\ left' = left - 1
    /\ UNCHANGED <<stack, listing, stream, peer, data, cmdline, spawns, ret,
                   dock, pending, settled>>

\* --version prints and main goes on; println! panics when the write fails
MainVersion(arg) ==
    /\ mode = "main"
    /\ stack = <<>>
    /\ left > 0
    /\ main(arg) = "version"
    /\ entry' = "version"
    /\ trace' = <<>>
    /\ probes' = <<>>
    /\ matched' = arg
    /\ prev' = entry
    /\ left' = left - 1
    /\ \E ok \in WriteOutcomes :
          /\ mode' = IF ok THEN mode ELSE "crashed"
          /\ fault' = IF ok THEN fault ELSE "failed printing to stdout"
    /\ UNCHANGED <<stack, listing, stream, peer, data, cmdline, spawns, ret,
                   dock, pending, settled>>

\* --help, or an argument main cannot parse: print the help and return;
\* print! and println! panic when the write fails
MainHelp(arg) ==
    /\ mode = "main"
    /\ stack = <<>>
    /\ left > 0
    /\ main(arg) \in {"help", "unparsed"}
    /\ entry' = main(arg)
    /\ trace' = <<>>
    /\ probes' = <<>>
    /\ matched' = arg
    /\ prev' = entry
    /\ left' = left - 1
    /\ \E ok \in WriteOutcomes :
          /\ mode' = IF ok THEN "exited" ELSE "crashed"
          /\ fault' = IF ok THEN fault ELSE "failed printing to stdout"
    /\ UNCHANGED <<stack, listing, stream, peer, data, cmdline, spawns, ret,
                   dock, pending, settled>>

\* no argument left: main returns
MainEnd ==
    /\ mode = "main"
    /\ stack = <<>>
    /\ left = 0
    /\ mode' = "exited"
    /\ UNCHANGED <<stack, entry, trace, probes, listing, stream, peer, data,
                 cmdline, spawns, ret, matched, prev, fault, dock, pending, settled, left>>

(* --------------------------- the running operation -------------------- *)

\* a call of an operation that starts without a probe
StepPlain ==
    /\ Running
    /\ stack # <<>>
    /\ Head(stack) \in PlainOps
    /\ stack' = PlainBody(Head(stack)) \o Tail(stack)
    /\ UNCHANGED <<mode, entry, trace, probes, listing, stream, peer, data,
                 cmdline, spawns, ret, matched, prev, fault>>
    /\ UNCHANGED <<dock, pending, settled, left>>

\* a call of an operation that starts with a probe: the listing command is
\* run and waited for, its output decoded (unwrap panics when it is not
\* UTF-8) and searched, and the operation branches
StepProbe ==
    /\ Running
    /\ stack # <<>>
    /\ Head(stack) \in InternalProbeOps \cup ExternalProbeOps
    /\ LET op == Head(stack)
           req == execute_command_with_output(dock.get_monitors_command)
       IN  /\ req.spawned => TRUE \in SpawnOutcomes(req.program)
           /\ LET output == IF req.spawned THEN listing ELSE <<>>
                  r == ProbeResult(op, output)
              IN  /\ trace' = IF req.spawned THEN Append(trace, "get_monitors_command") ELSE trace
                  /\ IF Utf8Valid(output)
                     THEN /\ probes' = Append(probes, [name |-> ProbeName(op), result |-> r])
                          /\ stack' = ProbeBody(op, r) \o Tail(stack)
                          /\ UNCHANGED <<mode, fault>>
                     ELSE /\ mode' = "crashed"
                          /\ stack' = <<>>
                          /\ fault' = "called Result::unwrap() on an Err value: FromUtf8Error"
                          /\ UNCHANGED probes
    /\ settled' = (settled /\ pending = <<>>)
    /\ UNCHANGED <<entry, listing, stream, peer, data, cmdline,
                 spawns, ret, matched, prev, dock, pending, left>>

\* execute_command on a config field: a detached spawn, not waited for
StepCommand ==
    /\ Running
    /\ stack # <<>>
    /\ Head(stack) \in Commands
    /\ LET req == execute_command(dock[Head(stack)])
       IN  /\ req.spawned => TRUE \in SpawnOutcomes(req.program)
           /\ trace' = IF req.spawned THEN Append(trace, Head(stack)) ELSE trace
    /\ stack' = Tail(stack)
    /\ UNCHANGED <<mode, entry, probes, listing, stream, peer, data,
                 cmdline, spawns, ret, matched, prev, fault>>
    /\ UNCHANGED <<dock, pending, settled, left>>

\* thread::sleep(Duration::from_millis(1000)) in handle_close
StepSleep ==
    /\ Running
    /\ stack # <<>>
    /\ Head(stack) = "sleep"
    /\ trace' = Append(trace, "sleep")
    /\ stack' = Tail(stack)
    /\ UNCHANGED <<mode, entry, probes, listing, stream, peer, data,
                 cmdline, spawns, ret, matched, prev, fault>>
    /\ UNCHANGED <<dock, pending, settled, left>>

\* a spawn that fails: expect panics and the process is gone
StepPanic ==
    /\ Running
    /\ stack # <<>>
    /\ \/ /\ Head(stack) \in Commands
          /\ LET req == execute_command(dock[Head(stack)])
             IN  req.spawned /\ FALSE \in SpawnOutcomes(req.program)
       \/ /\ Head(stack) \in InternalProbeOps \cup ExternalProbeOps
          /\ LET req == execute_command_with_output(dock.get_monitors_command)
             IN  req.spawned /\ FALSE \in SpawnOutcomes(req.program)
    /\ mode' = "crashed"
    /\ stack' = <<>>
    /\ fault' = "Could not parse command, please check your toml"
    /\ UNCHANGED <<entry, trace, probes, listing, stream, peer, data,
                 cmdline, spawns, ret, matched, prev>>
    /\ UNCHANGED <<dock, pending, settled, left>>

(* ------------------------------ socket loop --------------------------- *)

\* one turn of the loop of socket_connect: read blocks until there are
\* bytes or the peer has closed and takes at most BufSize bytes; they are
\* decoded (unwrap panics when they are not UTF-8) and the text goes to
\* handle_event
\* the loop of socket_connect leaving when a read returns no bytes
SocketRead_breaks_on_eof ==
    /\ mode = "server"
    /\ stack = <<>>
    /\ stream # <<>> \/ peer = "closed"
    /\ LET n == Min(Len(stream), BufSize)
           text == SubSeq(stream, 1, n)
       IN  /\ stream' = SubSeq(stream, n + 1, Len(stream))
           /\ IF Utf8Valid(text)
              THEN /\ data' = text
                   /\ stack' = handle_event(text)
                   /\ entry' = IF handle_event(text) = <<>> THEN "none"
                               ELSE Head(handle_event(text))
                   /\ trace' = <<>>
                   /\ probes' = <<>>
                   /\ prev' = entry
                   /\ matched' = "none"
                   /\ mode' = IF n = 0 THEN "exited" ELSE mode
                   /\ UNCHANGED fault
              ELSE /\ mode' = "crashed"
                   /\ fault' = "called Result::unwrap() on an Err value: Utf8Error"
                   /\ UNCHANGED <<data, stack, entry, trace, probes, prev, matched>>
    /\ UNCHANGED <<listing, peer, cmdline, spawns, ret>>
    /\ UNCHANGED <<dock, pending, settled, left>>

SocketRead ==
    /\ mode = "server"
    /\ stack = <<>>
    /\ stream # <<>> \/ peer = "closed"
    /\ LET n == Min(Len(stream), BufSize)
           text == SubSeq(stream, 1, n)
       IN  /\ stream' = SubSeq(stream, n + 1, Len(stream))
           /\ IF Utf8Valid(text)
              THEN /\ data' = text
                   /\ stack' = handle_event(text)
                   /\ entry' = IF handle_event(text) = <<>> THEN "none"
                               ELSE Head(handle_event(text))
                   /\ trace' = <<>>
                   /\ probes' = <<>>
                   /\ prev' = entry
                   /\ matched' = "none"
                   /\ UNCHANGED mode
                   /\ UNCHANGED fault
              ELSE /\ mode' = "crashed"
                   /\ fault' = "called Result::unwrap() on an Err value: Utf8Error"
                   /\ UNCHANGED <<data, stack, entry, trace, probes, prev, matched>>
    /\ UNCHANGED <<listing, peer, cmdline, spawns, ret>>
    /\ UNCHANGED <<dock, pending, settled, left>>

\* a read that returns an error: expect panics
\* a failed read after which the loop reads again
ReadPanic_retries ==
    /\ mode = "server"
    /\ stack = <<>>
    /\ mode' = "server"
    /\ fault' = "failed to read from socket"
    /\ UNCHANGED <<stack, entry, trace, probes, listing, stream, peer, data, cmdline,
                   spawns, ret, matched, prev>>
    /\ UNCHANGED <<dock, pending, settled, left>>

ReadPanic ==
    /\ mode = "server"
    /\ stack = <<>>
    /\ mode' = "crashed"
    /\ fault' = "failed to read from socket"
    /\ UNCHANGED <<stack, entry, trace, probes, listing, stream, peer,
                 data, cmdline, spawns, ret, matched, prev>>
    /\ UNCHANGED <<dock, pending, settled, left>>

(* ------------------------------ environment --------------------------- *)

\* acpid broadcasts a record to its connected clients
AcpiWrite(rec) ==
    /\ mode = "server"
    /\ peer = "open"
    /\ CountNewlines(stream) < MaxStream
    /\ stream' = stream \o rec
    /\ UNCHANGED <<mode, stack, entry, trace, probes, listing, peer, data,
                 cmdline, spawns, ret, matched, prev, fault>>
    /\ UNCHANGED <<dock, pending, settled, left>>

\* acpid closes its end of the socket
AcpiClose ==
    /\ mode = "server"
    /\ peer = "open"
    /\ peer' = "closed"
    /\ UNCHANGED <<mode, stack, entry, trace, probes, listing, stream, data,
                 cmdline, spawns, ret, matched, prev, fault>>
    /\ UNCHANGED <<dock, pending, settled, left>>

\* a monitor is plugged, unplugged, enabled or disabled
MonitorChange ==
    /\ Running
    /\ listing' \in Listings \ {listing}
    /\ UNCHANGED <<mode, stack, entry, trace, probes, stream, peer, data,
                 cmdline, spawns, ret, matched, prev, fault>>
    /\ UNCHANGED <<dock, pending, settled, left>>

Next ==
    \/ ArgsPanic
    \/ MainNoArgs
    \/ HomePanic
    \/ \E file \in Files : ParseConfig(file)
    \/ \E file \in Files : ParseConfigExit(file)
    \/ \E arg \in Args : MainOperation(arg)
    \/ \E arg \in Args : MainServer(arg)
    \/ \E arg \in Args : ConnectPanic(arg)
    \/ \E arg \in Args : MainVersion(arg)
    \/ \E arg \in Args : MainHelp(arg)
    \/ MainEnd
    \/ StepPlain
    \/ StepProbe
    \/ StepCommand
    \/ StepSleep
    \/ StepPanic
    \/ SocketRead
    \/ ReadPanic
    \/ \E rec \in Records : AcpiWrite(rec)
    \/ AcpiClose
    \/ MonitorChange

Spec ==
    Init /\ [][Next]_vars

(* ---------------------- the command runner on its own ----------------- *)

\* the characters command lines under test are made of
CmdChars ==
    {" ", "a", "b"}

\* every command line of at most MaxCmdLen characters
CmdLines ==
    UNION { [1..n -> CmdChars] : n \in 0..MaxCmdLen }

\* what a captured child may have printed
Outputs ==
    { <<>>, <<"o", "k">> }

InitRunner ==
    /\ mode = "runner"
    /\ stack = <<>>
    /\ entry = "none"
    /\ trace = <<>>
    /\ probes = <<>>
    /\ listing = <<>>
    /\ stream = <<>>
    /\ peer = "open"
    /\ data = <<>>
    /\ cmdline \in CmdLines
    /\ spawns = <<>>
    /\ ret = [kind |-> "none", bytes |-> <<>>]
    /\ matched = "none"
    /\ prev = "none"
    /\ fault = "none"
    /\ dock = Unloaded
    /\ pending = <<>>
    /\ settled = TRUE
    /\ left = 0

\* execute_command(cmdline)
RunCommand ==
    /\ mode = "runner"
    /\ LET req == execute_command(cmdline)
       IN  IF ~req.spawned
           THEN /\ mode' = "returned"
                /\ ret' = [kind |-> "unit", bytes |-> <<>>]
                /\ UNCHANGED <<spawns, fault>>
           ELSE \E ok \in SpawnOutcomes(req.program) :
                /\ spawns' = Append(spawns, req)
                /\ mode' = IF ok THEN "returned" ELSE "crashed"
                /\ ret' = IF ok THEN [kind |-> "unit", bytes |-> <<>>] ELSE ret
                /\ fault' = IF ok THEN fault
                            ELSE "Could not parse command, please check your toml"
    /\ UNCHANGED <<stack, entry, trace, probes, listing, stream, peer, data, cmdline, matched, prev>>
    /\ UNCHANGED <<dock, pending, settled, left>>

\* execute_command_with_output(cmdline)
RunCommandWithOutput ==
    /\ mode = "runner"
    /\ LET req == execute_command_with_output(cmdline)
       IN  IF ~req.spawned
           THEN /\ mode' = "returned"
                /\ ret' = [kind |-> "bytes", bytes |-> <<>>]
                /\ UNCHANGED <<spawns, fault>>
           ELSE \E ok \in SpawnOutcomes(req.program), out \in Outputs :
                /\ spawns' = Append(spawns, req)
                /\ mode' = IF ok THEN "returned" ELSE "crashed"
                /\ ret' = IF ok THEN [kind |-> "bytes", bytes |-> out] ELSE ret
                /\ fault' = IF ok THEN fault
                            ELSE "Could not parse command, please check your toml"
    /\ UNCHANGED <<stack, entry, trace, probes, listing, stream, peer, data, cmdline, matched, prev>>
    /\ UNCHANGED <<dock, pending, settled, left>>

NextRunner ==
    \/ RunCommand
    \/ RunCommandWithOutput

SpecRunner ==
    InitRunner /\ [][NextRunner]_vars

(* --------- an environment in which the commands change the monitors --- *)

\* the line the listing has for an internal monitor: "Monitor <name> (ID 0):"
InternalLine(name) ==
    <<"M","o","n","i","t","o","r"," ">> \o name \o <<" ","(","I","D"," ","0",")",":">>

\* the line it has for the external monitor: "Monitor HDMI-A-1 (ID 1):"
ExternalLine ==
    <<"M","o","n","i","t","o","r"," ","H","D","M","I","-","A","-","1"," ","(","I","D"," ","1",")",":">>

\* the listing of a desktop with the given monitors enabled
ListingOf(name, internal, external) ==
    (IF internal THEN InternalLine(name) ELSE <<>>)
        \o (IF internal /\ external THEN <<"\n">> ELSE <<>>)
        \o (IF external THEN ExternalLine ELSE <<>>)

\* the listing once the display backend has carried out a command line: a
\* line the configuration has for enabling or disabling a monitor switches
\* that monitor (the external monitor stays connected), whatever field it
\* was spawned for; every other line leaves the monitors alone
CommandEffect(line, output) ==
    LET internal == is_internal_active(output)
        external == has_external_monitor(output)
    IN  CASE line = dock.enable_internal_monitor_command ->
                 ListingOf(dock.monitor_name, TRUE, external)
          [] line = dock.disable_internal_monitor_command ->
                 ListingOf(dock.monitor_name, FALSE, external)
          [] line = dock.enable_external_monitor_command ->
                 ListingOf(dock.monitor_name, internal, TRUE)
          [] line = dock.disable_external_monitor_command ->
                 ListingOf(dock.monitor_name, internal, FALSE)
          [] OTHER -> output

InitEffect ==
    /\ Init
    /\ listing \in {ListingOf(Config.monitor_name, i, e) : i \in BOOLEAN, e \in BOOLEAN}

\* execute_command on a config field: the child is spawned and the program
\* goes on at once, however many children are still at work; the backend
\* has the command line in hand
StepCommandEffect ==
    /\ Running
    /\ stack # <<>>
    /\ Head(stack) \in Commands
    /\ LET req == execute_command(dock[Head(stack)])
       IN  /\ req.spawned => TRUE \in SpawnOutcomes(req.program)
           /\ trace' = IF req.spawned THEN Append(trace, Head(stack)) ELSE trace
           /\ pending' = IF req.spawned THEN Append(pending, dock[Head(stack)]) ELSE pending
    /\ stack' = Tail(stack)
    /\ UNCHANGED <<mode, entry, probes, listing, stream, peer, data, cmdline, spawns, ret,
                   matched, prev, fault, dock, settled, left>>

\* the backend carries out one of the command lines it has in hand; the
\* children are detached, so they finish in any order
BackendApply ==
    \E k \in 1..Len(pending) :
        /\ listing' = CommandEffect(pending[k], listing)
        /\ pending' = SubSeq(pending, 1, k - 1) \o SubSeq(pending, k + 1, Len(pending))
        /\ UNCHANGED <<mode, stack, entry, trace, probes, stream, peer, data, cmdline, spawns,
                       ret, matched, prev, fault, dock, settled, left>>

\* operations called one after the other from the command line.  Two
\* things the program can meet are left out of this environment: the socket
\* loop, and a monitor changing other than by the program's own commands
NextEffect ==
    \/ ArgsPanic
    \/ MainNoArgs
    \/ HomePanic
    \/ \E file \in Files : ParseConfig(file)
    \/ \E file \in Files : ParseConfigExit(file)
    \/ \E arg \in Args : MainOperation(arg)
    \/ \E arg \in Args : MainVersion(arg)
    \/ \E arg \in Args : MainHelp(arg)
    \/ MainEnd
    \/ StepPlain
    \/ StepProbe
    \/ StepCommandEffect
    \/ StepPanic
    \/ BackendApply

SpecEffect ==
    InitEffect /\ [][NextEffect]_vars

(* ===================================================================== *)
(* Properties                                                              *)
(* ===================================================================== *)

\* the dispatched operation has returned and the process is alive
Done ==
    Running /\ stack = <<>>

\* the commands issued since the dispatch, probe queries left out; the
\* settle delay appears in its place as "sleep"
Issued ==
    SelectSeq(trace, LAMBDA c : c # "get_monitors_command")

\* how many times command c was issued
Count(c) ==
    Cardinality({k \in 1..Len(Issued) : Issued[k] = c})

\* the bar and wallpaper commands
BarWallpaper ==
    {"wallpaper_command", "close_bar_command", "open_bar_command", "reload_bar_command"}

\* the records (newline-terminated lines) a text is made of
RECURSIVE RecordsIn(_)
RecordsIn(text) ==
    IF \A k \in 1..Len(text) : text[k] # "\n" THEN <<>>
    ELSE LET i == CHOOSE k \in 1..Len(text) :
                      text[k] = "\n" /\ \A j \in 1..(k - 1) : text[j] # "\n"
         IN  <<SubSeq(text, 1, i)>> \o RecordsIn(SubSeq(text, i + 1, Len(text)))

(* ------------------------------- C1 ---------------------------------- *)

\* C1: after handle_close whose own has_external_monitor query returned
\* true, whatever is_internal_active returned, the commands issued are
\* exactly disable-internal, enable-external, the settle delay, wallpaper,
\* close-bar, open-bar: no bar or wallpaper command before the delay.
C1_CloseWithExternal ==
    (Done /\ entry = "handle_close" /\ Len(probes) >= 1 /\ probes[1].result)
        => Issued = <<"disable_internal_monitor_command", "enable_external_monitor_command",
                      "sleep", "wallpaper_command", "close_bar_command", "open_bar_command">>

(* ------------------------------- C2 ---------------------------------- *)

\* C2 as stated: after handle_open in which every probe returned false, the
\* commands issued are exactly enable-internal, disable-external, wallpaper,
\* close-bar, open-bar, reload-bar.
C2_Original ==
    (Done /\ entry = "handle_open" /\ Len(probes) >= 2
          /\ \A k \in 1..Len(probes) : ~probes[k].result)
        => Issued = <<"enable_internal_monitor_command", "disable_external_monitor_command",
                      "wallpaper_command", "close_bar_command", "open_bar_command",
                      "reload_bar_command">>

\* C2 amended: after handle_open in which every probe returned false, the
\* commands issued are exactly enable-internal, disable-external, close-bar,
\* open-bar, wallpaper, wallpaper, close-bar, open-bar, reload-bar: the bar
\* and the wallpaper are restarted twice, and neither extend nor mirror is
\* issued.
C2_OpenWithoutExternal ==
    (Done /\ entry = "handle_open" /\ Len(probes) >= 2
          /\ \A k \in 1..Len(probes) : ~probes[k].result)
        => /\ Issued = <<"enable_internal_monitor_command", "disable_external_monitor_command",
                         "close_bar_command", "open_bar_command", "wallpaper_command",
                         "wallpaper_command", "close_bar_command", "open_bar_command",
                         "reload_bar_command">>
           /\ Count("extend_command") = 0
           /\ Count("mirror_command") = 0

C2_Witness ==
    /\ Done
    /\ entry = "handle_open"
    /\ Len(probes) = 3
    /\ \A k \in 1..3 : ~probes[k].result
    /\ Len(Issued) = 9

(* ------------------------------- C3 ---------------------------------- *)

\* C3: after handle_open in which is_internal_active returned false and
\* has_external_monitor returned true, extend was issued exactly once, after
\* an enable-internal, directly followed by wallpaper, close-bar, open-bar,
\* reload-bar as the last commands, and mirror was not issued.
C3_OpenWithExternal ==
    (Done /\ entry = "handle_open" /\ Len(probes) >= 2
          /\ ~probes[1].result /\ probes[2].result)
        => LET n == Len(Issued)
           IN  /\ Count("extend_command") = 1
               /\ Count("mirror_command") = 0
               /\ n >= 6
               /\ SubSeq(Issued, n - 4, n) =
                      <<"extend_command", "wallpaper_command", "close_bar_command",
                        "open_bar_command", "reload_bar_command">>
               /\ \E k \in 1..(n - 5) : Issued[k] = "enable_internal_monitor_command"

C3_Witness ==
    /\ Done
    /\ entry = "handle_open"
    /\ Len(probes) = 4
    /\ ~probes[1].result /\ probes[2].result /\ ~probes[3].result /\ ~probes[4].result
    /\ Count("extend_command") = 1
    /\ Count("enable_internal_monitor_command") = 2

(* ------------------------------- C4 ---------------------------------- *)

\* C4: once handle_open's is_internal_active query has returned true, the
\* handler is over and all it has run is that one monitor-listing query.
C4_OpenWhenInternalActive ==
    (Running /\ entry = "handle_open" /\ Len(probes) >= 1 /\ probes[1].result)
        => /\ stack = <<>>
           /\ trace = <<"get_monitors_command">>
           /\ Len(probes) = 1

C4_Witness ==
    /\ Done
    /\ entry = "handle_open"
    /\ Len(probes) = 1
    /\ probes[1].result
    /\ has_external_monitor(listing)

(* ------------------------------- C5 ---------------------------------- *)

\* C5: after handle_close whose has_external_monitor query returned false,
\* the commands issued are exactly media-pause, lock, suspend; no layout,
\* bar or wallpaper command is among them.
C5_CloseWithoutExternal ==
    (Done /\ entry = "handle_close" /\ Len(probes) >= 1 /\ ~probes[1].result)
        => /\ Issued = <<"utility_command", "lock_command", "suspend_command">>
           /\ trace = <<"get_monitors_command">> \o Issued

C5_Witness ==
    /\ Done
    /\ entry = "handle_close"
    /\ Len(probes) = 1
    /\ ~probes[1].result
    /\ Len(Issued) = 3

(* ------------------------------- C6 ---------------------------------- *)

\* C6: no lid record is dropped: the lid records in the text of the last
\* read are exactly the one record whose handler that read dispatched.
C6_NoLidRecordDropped ==
    mode = "server"
        => SelectSeq(RecordsIn(data), LAMBDA rec : rec \in {LidClose, LidOpen})
               = (IF entry = "handle_close" THEN <<LidClose>>
                  ELSE IF entry = "handle_open" THEN <<LidOpen>>
                  ELSE <<>>)

(* ------------------------------- C7 ---------------------------------- *)

\* C7: given the empty command line, execute_command and
\* execute_command_with_output attempt no spawn and return without a panic,
\* the capturing one with no bytes.
C7_EmptyCommandIsNoOp ==
    (cmdline = <<>> /\ mode # "runner")
        => /\ spawns = <<>>
           /\ mode = "returned"
           /\ ret.bytes = <<>>

(* ------------------------------- C8 ---------------------------------- *)

\* C8: after external_monitor, nothing was issued if has_external_monitor
\* returned false; otherwise disable-internal then enable-external were
\* issued, with a bar and wallpaper restart exactly when is_internal_active
\* had returned true.
C8_ExternalMonitor ==
    (Done /\ entry = "external_monitor" /\ Len(probes) >= 1)
        => IF ~probes[1].result
           THEN Issued = <<>>
           ELSE /\ Len(probes) = 2
                /\ SubSeq(Issued, 1, 2) =
                       <<"disable_internal_monitor_command", "enable_external_monitor_command">>
                /\ probes[2].result <=>
                       (\E k \in 1..Len(Issued) : Issued[k] \in BarWallpaper)

(* ------------------------------- C9 ---------------------------------- *)

\* C9: after internal_monitor the commands issued are enable-internal,
\* disable-external, and then close-bar, open-bar, wallpaper exactly when
\* the is_internal_active query at its start returned false.
C9_InternalMonitor ==
    (Done /\ entry = "internal_monitor")
        => /\ Len(probes) = 1
           /\ Issued = <<"enable_internal_monitor_command", "disable_external_monitor_command">>
                  \o (IF probes[1].result THEN <<>>
                      ELSE <<"close_bar_command", "open_bar_command", "wallpaper_command">>)

C9_Witness ==
    /\ Done
    /\ entry = "internal_monitor"
    /\ ~probes[1].result
    /\ Len(Issued) = 5

(* ------------------------------- C10 --------------------------------- *)

\* C10: after extend_monitor or mirror_monitor the commands issued are
\* enable-internal, wallpaper, close-bar, open-bar, reload-bar when
\* is_internal_active returned false and none of them when it returned true,
\* followed by the one layout command: extend for extend_monitor, mirror for
\* mirror_monitor.
C10_ExtendAndMirror ==
    (Done /\ entry \in {"extend_monitor", "mirror_monitor"})
        => /\ Len(probes) = 1
           /\ Issued = (IF probes[1].result THEN <<>>
                        ELSE <<"enable_internal_monitor_command", "wallpaper_command",
                               "close_bar_command", "open_bar_command", "reload_bar_command">>)
                  \o (IF entry = "extend_monitor" THEN <<"extend_command">>
                      ELSE <<"mirror_command">>)

C10_Witness ==
    /\ Done
    /\ entry = "mirror_monitor"
    /\ ~probes[1].result
    /\ Len(Issued) = 6
    /\ Issued[6] = "mirror_command"

(* ------------------------------- C11 --------------------------------- *)

\* C11: when commands take effect before the next probe, a second
\* internal_monitor run directly after a first, and a second external_monitor
\* run directly after a first with the external monitor present, issue no
\* bar and no wallpaper command.
C11_SecondCallRestartsNothing ==
    (Done /\ settled /\ pending = <<>>
          /\ entry \in {"internal_monitor", "external_monitor"} /\ prev = entry
          /\ (entry = "external_monitor" => probes[1].result))
        => \A k \in 1..Len(Issued) : Issued[k] \notin BarWallpaper

(* ------------------------------- C12 --------------------------------- *)

\* C12: while the text of the last read is neither lid literal, the daemon
\* has dispatched nothing, run no command and no probe, has not panicked and
\* is back at the read.
C12_OtherTextIgnored ==
    (mode = "server" /\ data \notin {LidClose, LidOpen})
        => /\ stack = <<>>
           /\ entry = "none"
           /\ trace = <<>>
           /\ probes = <<>>
           /\ fault = "none"

C12_Witness ==
    /\ mode = "server"
    /\ data = PowerButton \o LidOpen
    /\ stack = <<>>
    /\ stream # <<>>

(* ------------------------------- C13 --------------------------------- *)

\* C13: the flag main matched ran the operation print_help documents
\* for it, --server/-s having entered the socket loop.
C13_FlagsAsDocumented ==
    (matched # "none" /\ print_help(matched) # "none")
        => IF print_help(matched) = "socket_connect"
           THEN mode \in {"server", "crashed"}
           ELSE entry = print_help(matched)

(* ------------------------------- C14 --------------------------------- *)

\* C14: a suspend command comes directly after a lock command, and a lock
\* command is directly followed by the suspend command: no probe query and
\* no wait is between them, and while the lock command is the last one run
\* the suspend command is the next thing the program does.
C14_LockThenSuspend ==
    \A k \in 1..Len(trace) :
        /\ trace[k] = "suspend_command" => (k > 1 /\ trace[k - 1] = "lock_command")
        /\ trace[k] = "lock_command" =>
               IF k < Len(trace) THEN trace[k + 1] = "suspend_command"
               ELSE Running => (stack # <<>> /\ Head(stack) = "suspend_command")

C14_Witness ==
    /\ Done
    /\ entry = "handle_close"
    /\ prev = "handle_open"
    /\ Len(trace) = 4
    /\ trace[4] = "suspend_command"

(* ------------------------------- C15 --------------------------------- *)

\* C15: every open-bar command comes directly after a close-bar command.
C15_OpenBarAfterCloseBar ==
    \A k \in 1..Len(trace) :
        trace[k] = "open_bar_command" => (k > 1 /\ trace[k - 1] = "close_bar_command")

C15_Witness ==
    /\ Done
    /\ entry = "handle_open"
    /\ Cardinality({k \in 1..Len(trace) : trace[k] = "open_bar_command"}) = 3

(* ------------------------------- C16 --------------------------------- *)

\* C16 as stated: in a handle_open in which is_internal_active returned
\* false and has_external_monitor returned true, the disable-external
\* command is not issued.
C16_Original ==
    (entry = "handle_open" /\ Len(probes) >= 2 /\ ~probes[1].result /\ probes[2].result)
        => Count("disable_external_monitor_command") = 0

\* C16 amended: after such a handle_open the disable-external command was
\* issued exactly once, as the second command, directly after the first
\* enable-internal and before the extend command.
C16_OpenDisablesExternalOnce ==
    (Done /\ entry = "handle_open" /\ Len(probes) >= 2
          /\ ~probes[1].result /\ probes[2].result)
        => /\ Count("disable_external_monitor_command") = 1
           /\ Issued[1] = "enable_internal_monitor_command"
           /\ Issued[2] = "disable_external_monitor_command"
           /\ \E k \in 3..Len(Issued) : Issued[k] = "extend_command"

C16_Witness ==
    /\ Done
    /\ entry = "handle_open"
    /\ Len(probes) = 4
    /\ ~probes[1].result /\ probes[2].result /\ probes[4].result
    /\ Issued[2] = "disable_external_monitor_command"

(* ------------------------------- C17 --------------------------------- *)

\* what handle_close issues, as a function of its probe results alone
ExpectedClose(r) ==
    IF ~r[1]
    THEN <<"utility_command", "lock_command", "suspend_command">>
    ELSE (IF ~r[2] THEN <<>>
          ELSE <<"disable_internal_monitor_command", "enable_external_monitor_command">>
                   \o (IF r[3] THEN <<>>
                       ELSE <<"close_bar_command", "open_bar_command", "wallpaper_command">>))
             \o <<"sleep", "wallpaper_command", "close_bar_command", "open_bar_command">>

\* what handle_open issues, as a function of its probe results alone
ExpectedOpen(r) ==
    IF r[1] THEN <<>>
    ELSE <<"enable_internal_monitor_command", "disable_external_monitor_command">>
             \o (IF r[3] THEN <<>>
                 ELSE <<"close_bar_command", "open_bar_command", "wallpaper_command">>)
             \o (IF ~r[2] THEN <<>>
                 ELSE (IF r[4] THEN <<>>
                       ELSE <<"enable_internal_monitor_command", "wallpaper_command",
                              "close_bar_command", "open_bar_command", "reload_bar_command">>)
                          \o <<"extend_command">>)
             \o <<"wallpaper_command", "close_bar_command", "open_bar_command",
                  "reload_bar_command">>

\* the number of probes handle_close runs, given their results
ProbesOfClose(r) ==
    /\ Len(r) >= 1
    /\ ~r[1] => Len(r) = 1
    /\ r[1] => (Len(r) >= 2 /\ Len(r) = (IF r[2] THEN 3 ELSE 2))

\* the number of probes handle_open runs, given their results
ProbesOfOpen(r) ==
    /\ Len(r) >= 1
    /\ r[1] => Len(r) = 1
    /\ ~r[1] => (Len(r) >= 2 /\ Len(r) = (IF r[2] THEN 4 ELSE 3))

\* C17: the probes a lid handler has run and the commands it has issued
\* when it returns are a function of the event and of the probe results it
\* received, whatever was handled before: so two runs with the same event
\* and the same probe results issue the same commands.
C17_FunctionOfEventAndProbes ==
    LET r == [k \in 1..Len(probes) |-> probes[k].result]
    IN  /\ (Done /\ entry = "handle_close")
               => (ProbesOfClose(r) /\ Issued = ExpectedClose(r))
        /\ (Done /\ entry = "handle_open")
               => (ProbesOfOpen(r) /\ Issued = ExpectedOpen(r))

C17_Witness ==
    /\ Done
    /\ entry = "handle_open"
    /\ prev = "handle_open"
    /\ Len(probes) = 3
    /\ Len(Issued) = 9

(* ------------------------------- C18 --------------------------------- *)

\* the panics of socket_connect
SocketFaults ==
    {"failed to connect to socket", "failed to read from socket"}

\* C18: once the connect or a read has failed the process is gone: it is
\* in the terminated state with nothing left to run, and no step follows,
\* so no command is issued and neither the connect nor the read is retried.
C18_SocketFailureIsFatal ==
    /\ [](fault \in SocketFaults => (mode = "crashed" /\ stack = <<>>))
    /\ [][(fault \in SocketFaults) => (vars' = vars)]_vars

C18_Witness ==
    /\ fault = "failed to read from socket"
    /\ mode = "crashed"
    /\ entry = "handle_close"
    /\ trace # <<>>
    /\ stream # <<>>

(* ------------------------------- C19 --------------------------------- *)

\* C19: in a handle_close, a command issued after the settle delay comes
\* after a disable-internal and an enable-external of the same handling.
C19_RestartOnlyAfterSwitch ==
    entry = "handle_close"
        => \A k \in 1..Len(Issued) :
               (Issued[k] = "sleep" /\ k < Len(Issued))
                   => \E i, j \in 1..(k - 1) :
                          /\ i < j
                          /\ Issued[i] = "disable_internal_monitor_command"
                          /\ Issued[j] = "enable_external_monitor_command"

(* ------------------------------- C20 --------------------------------- *)

\* C20: the loop is left only by a panic; commands are run only while the
\* text of the last read is a lid record; and when the peer has closed and
\* nothing is left to read, the read is not blocked and the daemon's next
\* step, unless it is a panic, is a read that leaves it in the loop with
\* nothing dispatched and no command run.
C20_LoopGoesOnAtEndOfStream ==
    /\ [][mode = "server" => mode' \in {"server", "crashed"}]_vars
    /\ []((mode = "server" /\ trace # <<>>) => data \in {LidClose, LidOpen})
    /\ []((mode = "server" /\ stack = <<>> /\ peer = "closed") => ENABLED SocketRead)
    /\ [][(mode = "server" /\ stack = <<>> /\ stream = <<>> /\ peer = "closed"
              /\ listing' = listing /\ fault' = "none")
            => (mode' = "server" /\ data' = <<>> /\ stack' = <<>> /\ trace' = <<>>
                   /\ entry' = "none")]_vars

C20_Witness ==
    /\ mode = "server"
    /\ peer = "closed"
    /\ stream = <<>>
    /\ data = <<>>
    /\ stack = <<>>
    /\ entry = "none"
    /\ prev = "handle_close"

====
